---- MODULE Spec2Model ----
(***************************************************************************)
(* Sokoban rules engine (exercise_6_2/sokoban2.py, exercise_6_2/sokoban.py) *)
(* as a state machine: the level parser and the board engine of the class  *)
(* SokobanModel, and the session driven by SokobanController.game_loop.    *)
(*                                                                         *)
(* A level text is a sequence of rows; a row is a sequence of one-character *)
(* strings (glyphs). A position is the pair <<x, y>> with x the 0-based    *)
(* column and y the 0-based row, as built by enumerate() in __init__.      *)
(***************************************************************************)
EXTENDS Integers, Sequences, FiniteSets, TLC

VARIABLES
    level_data,   \* board specification: the level text the boards were built from
    model,        \* board specification: the SokobanModel object of sokoban2.py
    model_v1,     \* board specification: the SokobanModel object of sokoban.py
    call,         \* board specification: the last move call (arguments, results, state before)
    level_files,  \* session: the texts of the sorted levels/*.xsb files
    ctl,          \* session: the SokobanController object of sokoban.py
    loop,         \* session: position of game_loop and the rest of the event batch
    last,         \* session: what the last event handler did
    history       \* session: the completed levels so far, each with its score

vars == <<level_data, model, model_v1, call, level_files, ctl, loop, last, history>>

----------------------------------------------------------------------------
(* Bounds of the model *)

\* a board accepts move calls while its move_count is below this
MaxMoves == 3
\* generated level texts are single rows of at most this many glyphs
MaxLen == 3
\* a session has at most this many level files
MaxLevels == 2
\* pygame.event.get() returns at most this many events at once
MaxBatch == 2
\* a level is scored with a move_count of at most this
MaxCount == 1000

----------------------------------------------------------------------------
(* class Symbol *)

BOX == "$"
BOX_ON_GOAL == "*"
PLAYER == "@"
PLAYER_ON_GOAL == "+"
GOAL == "."
WALL == "#"
FLOOR == "-"

(* class MoveResponse, by member name; AttributeError is the exception a   *)
(* move call raises when it reads a player attribute that was never set.   *)

INVALID_WALL == "INVALID_WALL"
INVALID_BOX == "INVALID_BOX"
VALID == "VALID"
AttributeError == "AttributeError"

\* the value of a player attribute that __init__ never assigned
NoPlayer == <<>>

----------------------------------------------------------------------------
(* Rows of level_data, and str.strip()                                    *)

\* a row that is a str, as the sequence of its characters
StrRow(chars) == [has_strip |-> TRUE, items |-> chars]

\* a row that is any other sequence of glyphs (a list, a tuple)
SeqRow(items) == [has_strip |-> FALSE, items |-> items]

\* hasattr(row, 'strip')
hasattr_strip(row) == row.has_strip

\* str.isspace() on one character: tab, line feed, vertical tab, form feed,
\* carriage return, the separators 1C to 1F, the blank, next line (85), the
\* no-break space (A0) and the ogham space mark (U+1680); the parser of
\* modules accepts none of the remaining spaces (U+2000 to U+200A, U+2028,
\* U+2029, U+202F, U+205F, U+3000) in a string, so no row can hold them
IsSpace(c) ==
    c \in {"\t", "\n", "", "\f", "\r", "", "", "", "", " ", "", " ", " "}

RECURSIVE lstrip(_)
lstrip(s) == IF s # <<>> /\ IsSpace(Head(s)) THEN lstrip(Tail(s)) ELSE s

RECURSIVE rstrip(_)
rstrip(s) ==
    IF s # <<>> /\ IsSpace(s[Len(s)]) THEN rstrip(SubSeq(s, 1, Len(s) - 1)) ELSE s

strip(s) == rstrip(lstrip(s))

----------------------------------------------------------------------------
(* SokobanModel.__init__ *)

\* faulty variant: the goal under a player-on-goal glyph is not recorded
match_symbol_drops_goal(m, symbol, pos) ==
    CASE symbol = BOX -> [m EXCEPT !.boxes = @ \cup {pos}]
      [] symbol = BOX_ON_GOAL ->
            [m EXCEPT !.boxes = @ \cup {pos}, !.goals = @ \cup {pos}]
      [] symbol = PLAYER -> [m EXCEPT !.player = pos]
      [] symbol = PLAYER_ON_GOAL -> [m EXCEPT !.player = pos]
      [] symbol = GOAL -> [m EXCEPT !.goals = @ \cup {pos}]
      [] symbol = WALL -> [m EXCEPT !.walls = @ \cup {pos}]
      [] OTHER -> m

\* the match statement on one glyph at pos
match_symbol(m, symbol, pos) ==
    CASE symbol = BOX -> [m EXCEPT !.boxes = @ \cup {pos}]
      [] symbol = BOX_ON_GOAL ->
            [m EXCEPT !.boxes = @ \cup {pos}, !.goals = @ \cup {pos}]
      [] symbol = PLAYER -> [m EXCEPT !.player = pos]
      [] symbol = PLAYER_ON_GOAL ->
            [m EXCEPT !.player = pos, !.goals = @ \cup {pos}]
      [] symbol = GOAL -> [m EXCEPT !.goals = @ \cup {pos}]
      [] symbol = WALL -> [m EXCEPT !.walls = @ \cup {pos}]
      [] OTHER -> m

\* for x, symbol in enumerate(row_str), from column x on
RECURSIVE scan_row(_, _, _, _)
scan_row(m, row_str, x, y) ==
    IF x >= Len(row_str) THEN m
    ELSE scan_row(match_symbol(m, row_str[x + 1], <<x, y>>), row_str, x + 1, y)

\* row_str = row.strip() if hasattr(row, 'strip') else row
row_str(row) == IF hasattr_strip(row) THEN strip(row.items) ELSE row.items

\* for y, row in enumerate(level_data), from row y on
RECURSIVE scan_rows(_, _, _)
scan_rows(m, rows, y) ==
    IF y >= Len(rows) THEN m
    ELSE scan_rows(scan_row(m, row_str(rows[y + 1]), 0, y), rows, y + 1)

\* self.size
size_of(rows) ==
    IF Len(rows) > 0
    THEN IF hasattr_strip(rows[1])
         THEN <<Len(strip(rows[1].items)), Len(rows)>>
         ELSE <<Len(rows[1].items), Len(rows)>>
    ELSE <<0, 0>>

\* sokoban2.py: the object __init__ leaves behind; __init__ has no raise
SokobanModel(rows) ==
    scan_rows([walls |-> {}, boxes |-> {}, goals |-> {}, player |-> NoPlayer,
               move_count |-> 0, push_count |-> 0, size |-> size_of(rows)],
              rows, 0)

\* sokoban.py: the same constructor without a push counter
SokobanModel_v1(rows) ==
    scan_rows([walls |-> {}, boxes |-> {}, goals |-> {}, player |-> NoPlayer,
               move_count |-> 0, size |-> size_of(rows)],
              rows, 0)

\* whether the constructor call raises: no statement of __init__ raises on a
\* list of strings, whatever the glyphs
init_raises(rows) == FALSE

----------------------------------------------------------------------------
(* SokobanModel.is_empty, move, is_level_complete (sokoban2.py) *)

\* faulty variant: a cell holding a box counts as empty
is_empty_ignores_boxes(m, x, y) ==
    IF <<x, y>> \in m.walls THEN FALSE ELSE TRUE

\* faulty variant: a cell outside the parsed rectangle is never empty
is_empty_bounded(m, x, y) ==
    IF x < 0 \/ y < 0 \/ x >= m.size[1] \/ y >= m.size[2] THEN FALSE
    ELSE IF <<x, y>> \in m.walls THEN FALSE
    ELSE IF <<x, y>> \in m.boxes THEN FALSE
    ELSE TRUE

is_empty(m, x, y) ==
    IF <<x, y>> \in m.walls THEN FALSE
    ELSE IF <<x, y>> \in m.boxes THEN FALSE
    ELSE TRUE

\* faulty variant: a plain step is counted as a push
move_to_empty_counts_push(m, nx, ny) ==
    [model |-> [m EXCEPT !.player = <<nx, ny>>, !.push_count = @ + 1],
     result |-> VALID]

\* faulty variant: a box right behind the player is pulled along by a step
move_to_empty_drags_box(m, nx, ny) ==
    LET behind == <<m.player[1] - (nx - m.player[1]), m.player[2] - (ny - m.player[2])>>
    IN  [model |-> [m EXCEPT !.player = <<nx, ny>>,
                             !.boxes = IF behind \in @
                                       THEN (@ \ {behind}) \cup {m.player}
                                       ELSE @],
         result |-> VALID]

\* case 1 of move: the player steps onto the empty cell (nx, ny)
move_to_empty(m, nx, ny) ==
    [model |-> [m EXCEPT !.player = <<nx, ny>>], result |-> VALID]

\* faulty variant: the pushed box is added at its new cell and never removed from the old
push_box_keeps_old(m, nx, ny, nnx, nny) ==
    IF is_empty(m, nnx, nny)
    THEN [model |-> [m EXCEPT !.boxes = @ \cup {<<nnx, nny>>},
                              !.player = <<nx, ny>>,
                              !.push_count = @ + 1],
          result |-> VALID]
    ELSE [model |-> m, result |-> INVALID_BOX]

\* faulty variant: a box blocked by another box pushes that box along when the
\* cell behind it is free
push_box_chain(m, nx, ny, nnx, nny) ==
    LET dx == nnx - nx
        dy == nny - ny
    IN  IF is_empty(m, nnx, nny)
        THEN [model |-> [m EXCEPT !.boxes = (@ \ {<<nx, ny>>}) \cup {<<nnx, nny>>},
                                  !.player = <<nx, ny>>,
                                  !.push_count = @ + 1],
              result |-> VALID]
        ELSE IF <<nnx, nny>> \in m.boxes /\ is_empty(m, nnx + dx, nny + dy)
        THEN [model |-> [m EXCEPT !.boxes = (@ \ {<<nx, ny>>}) \cup {<<nnx + dx, nny + dy>>},
                                  !.player = <<nx, ny>>,
                                  !.push_count = @ + 1],
              result |-> VALID]
        ELSE [model |-> m, result |-> INVALID_BOX]

\* faulty variant: a blocked box is reported as a wall
push_box_reports_wall(m, nx, ny, nnx, nny) ==
    IF is_empty(m, nnx, nny)
    THEN [model |-> [m EXCEPT !.boxes = (@ \ {<<nx, ny>>}) \cup {<<nnx, nny>>},
                              !.player = <<nx, ny>>,
                              !.push_count = @ + 1],
          result |-> VALID]
    ELSE [model |-> m, result |-> INVALID_WALL]

\* faulty variant: the push is counted before the cell behind the box is tested
push_box_counts_blocked(m, nx, ny, nnx, nny) ==
    IF is_empty(m, nnx, nny)
    THEN [model |-> [m EXCEPT !.boxes = (@ \ {<<nx, ny>>}) \cup {<<nnx, nny>>},
                              !.player = <<nx, ny>>,
                              !.push_count = @ + 1],
          result |-> VALID]
    ELSE [model |-> [m EXCEPT !.push_count = @ + 1], result |-> INVALID_BOX]

\* faulty variant: a goal is used up by the box pushed onto it
push_box_consumes_goal(m, nx, ny, nnx, nny) ==
    IF is_empty(m, nnx, nny)
    THEN [model |-> [m EXCEPT !.boxes = (@ \ {<<nx, ny>>}) \cup {<<nnx, nny>>},
                              !.goals = @ \ {<<nnx, nny>>},
                              !.player = <<nx, ny>>,
                              !.push_count = @ + 1],
          result |-> VALID]
    ELSE [model |-> m, result |-> INVALID_BOX]

\* faulty variant: a box is pushed onto another box
push_box_into_box(m, nx, ny, nnx, nny) ==
    IF <<nnx, nny>> \notin m.walls
    THEN [model |-> [m EXCEPT !.boxes = (@ \ {<<nx, ny>>}) \cup {<<nnx, nny>>},
                              !.player = <<nx, ny>>,
                              !.push_count = @ + 1],
          result |-> VALID]
    ELSE [model |-> m, result |-> INVALID_BOX]

\* case 2 of move: the box at (nx, ny) is pushed to (nnx, nny), or is blocked
push_box(m, nx, ny, nnx, nny) ==
    IF is_empty(m, nnx, nny)
    THEN [model |-> [m EXCEPT !.boxes = (@ \ {<<nx, ny>>}) \cup {<<nnx, nny>>},
                              !.player = <<nx, ny>>,
                              !.push_count = @ + 1],
          result |-> VALID]
    ELSE [model |-> m, result |-> INVALID_BOX]

\* faulty variant: every call is counted as a move, valid or not
count_move_always(r) ==
    [model |-> [r.model EXCEPT !.move_count = @ + 1], result |-> r.result]

\* faulty variant: a valid move is counted twice
count_move_twice(r) ==
    IF r.result = VALID
    THEN [model |-> [r.model EXCEPT !.move_count = @ + 2], result |-> VALID]
    ELSE r

\* the end of move: a valid move is counted
count_move(r) ==
    IF r.result = VALID
    THEN [model |-> [r.model EXCEPT !.move_count = @ + 1], result |-> VALID]
    ELSE r

move(m, dx, dy) ==
    IF m.player = NoPlayer THEN [model |-> m, result |-> AttributeError]
    ELSE
    LET x == m.player[1]
        y == m.player[2]
        nx == x + dx
        ny == y + dy
        nnx == nx + dx
        nny == ny + dy
    IN  count_move(
            IF is_empty(m, nx, ny) THEN move_to_empty(m, nx, ny)
            ELSE IF <<nx, ny>> \in m.boxes THEN push_box(m, nx, ny, nnx, nny)
            ELSE [model |-> m, result |-> INVALID_WALL])

\* faulty variant: boxes and the player are looked up before goals
symbol_goal_last(m, x, y) ==
    LET pos == <<x, y>>
    IN  IF pos \in m.boxes THEN BOX
        ELSE IF m.player = NoPlayer THEN AttributeError
        ELSE IF pos = m.player THEN PLAYER
        ELSE IF pos \in m.goals THEN GOAL
        ELSE IF pos \in m.walls THEN WALL
        ELSE FLOOR

\* SokobanModel.symbol: the Symbol member, by its glyph; the comparison with
\* self.player raises when the board has no player
symbol(m, x, y) ==
    LET pos == <<x, y>>
    IN  IF pos \in m.goals
        THEN IF pos \in m.boxes THEN BOX_ON_GOAL
             ELSE IF m.player = NoPlayer THEN AttributeError
             ELSE IF pos = m.player THEN PLAYER_ON_GOAL
             ELSE GOAL
        ELSE IF pos \in m.boxes THEN BOX
        ELSE IF m.player = NoPlayer THEN AttributeError
        ELSE IF pos = m.player THEN PLAYER
        ELSE IF pos \in m.walls THEN WALL
        ELSE FLOOR

\* faulty variant: the check that there is a goal at all is missing
is_level_complete_vacuous(m) ==
    IF \E goal_pos \in m.goals : goal_pos \notin m.boxes THEN FALSE ELSE TRUE

\* faulty variant: a goal the player stands on counts as covered
is_level_complete_counts_player(m) ==
    IF \E goal_pos \in m.goals : goal_pos \notin m.boxes /\ goal_pos # m.player THEN FALSE
    ELSE Cardinality(m.goals) > 0

is_level_complete(m) ==
    IF \E goal_pos \in m.goals : goal_pos \notin m.boxes THEN FALSE
    ELSE Cardinality(m.goals) > 0

----------------------------------------------------------------------------
(* SokobanModel.is_empty, move, is_level_complete (sokoban.py) *)

\* faulty variant: the older engine lets the player step onto a box
is_empty_v1_walls_only(m, x, y) ==
    IF <<x, y>> \in m.walls THEN FALSE ELSE TRUE

is_empty_v1(m, x, y) ==
    IF <<x, y>> \in m.walls THEN FALSE
    ELSE IF <<x, y>> \in m.boxes THEN FALSE
    ELSE TRUE

move_v1(m, dx, dy) ==
    IF m.player = NoPlayer THEN [model |-> m, result |-> AttributeError]
    ELSE
    LET x == m.player[1]
        y == m.player[2]
        nx == x + dx
        ny == y + dy
        nnx == nx + dx
        nny == ny + dy
        r == IF is_empty_v1(m, nx, ny)
             THEN [model |-> [m EXCEPT !.player = <<nx, ny>>], result |-> VALID]
             ELSE IF <<nx, ny>> \in m.boxes
             THEN IF is_empty_v1(m, nnx, nny)
                  THEN [model |-> [m EXCEPT !.boxes = (@ \ {<<nx, ny>>}) \cup {<<nnx, nny>>},
                                            !.player = <<nx, ny>>],
                        result |-> VALID]
                  ELSE [model |-> m, result |-> INVALID_BOX]
             ELSE [model |-> m, result |-> INVALID_WALL]
    IN  IF r.result = VALID
        THEN [model |-> [r.model EXCEPT !.move_count = @ + 1], result |-> VALID]
        ELSE r

is_level_complete_v1(m) ==
    IF \E goal_pos \in m.goals : goal_pos \notin m.boxes THEN FALSE
    ELSE Cardinality(m.goals) > 0

symbol_v1(m, x, y) ==
    LET pos == <<x, y>>
    IN  IF pos \in m.goals
        THEN IF pos \in m.boxes THEN BOX_ON_GOAL
             ELSE IF m.player = NoPlayer THEN AttributeError
             ELSE IF pos = m.player THEN PLAYER_ON_GOAL
             ELSE GOAL
        ELSE IF pos \in m.boxes THEN BOX
        ELSE IF m.player = NoPlayer THEN AttributeError
        ELSE IF pos = m.player THEN PLAYER
        ELSE IF pos \in m.walls THEN WALL
        ELSE FLOOR

----------------------------------------------------------------------------
(* Level texts *)

\* the glyphs of generated rows: the seven symbols, a blank and a line end
Glyphs == {BOX, BOX_ON_GOAL, PLAYER, PLAYER_ON_GOAL, GOAL, WALL, FLOOR, " ", "\n"}

\* every one-row level text of at most MaxLen glyphs
GeneratedLevels ==
    UNION { { <<StrRow(row)>> : row \in [1..n -> Glyphs] } : n \in 0..MaxLen }

\* the framed corridor of the first two scenarios
Scenario1 == << StrRow(<<WALL, WALL, WALL, WALL, WALL>>),
                StrRow(<<WALL, PLAYER, BOX, GOAL, WALL>>),
                StrRow(<<WALL, WALL, WALL, WALL, WALL>>) >>

\* two boxes in a row, a goal and a wall behind them
Scenario3 == << StrRow(<<WALL, PLAYER, BOX, BOX, GOAL, WALL>>) >>

\* a column: the box is pushed down onto the goal
ColumnLevel == << StrRow(<<PLAYER, "\n">>), StrRow(<<BOX, "\n">>),
                  StrRow(<<GOAL, "\n">>), StrRow(<<WALL, "\n">>) >>

\* rows of unequal length, an indented row and an unrecognized glyph
JaggedLevel == << StrRow(<<FLOOR, PLAYER>>), StrRow(<<" ", BOX, "x", GOAL>>) >>

\* no rows at all
EmptyLevel == << >>

Levels ==
    GeneratedLevels \cup {Scenario1, Scenario3, ColumnLevel, JaggedLevel, EmptyLevel}

\* the deltas game_loop passes to move: up, left, down, right
Directions == {<<0, -1>>, <<-1, 0>>, <<0, 1>>, <<1, 0>>}

----------------------------------------------------------------------------
(* The board specification: a board is built from a level text by both     *)
(* engines and receives move calls.                                        *)

NoSession ==
    /\ level_files = << >>
    /\ ctl = [score |-> 0]
    /\ loop = [pc |-> "none"]
    /\ last = [event |-> "none"]
    /\ history = << >>

Init ==
    /\ level_data \in Levels
    /\ model = SokobanModel(level_data)
    /\ model_v1 = SokobanModel_v1(level_data)
    /\ call = [dx |-> 0, dy |-> 0, result |-> "none", result_v1 |-> "none",
               before |-> SokobanModel(level_data)]
    /\ NoSession

\* one call model.move(dx, dy) on each engine
Move(dx, dy) ==
    /\ model.move_count < MaxMoves
    /\ LET r == move(model, dx, dy)
           r1 == move_v1(model_v1, dx, dy)
       IN  /\ model' = r.model
           /\ model_v1' = r1.model
           /\ call' = [dx |-> dx, dy |-> dy, result |-> r.result,
                       result_v1 |-> r1.result, before |-> model]
    /\ UNCHANGED <<level_data, level_files, ctl, loop, last, history>>

Next == \E d \in Directions : Move(d[1], d[2])

Spec == Init /\ [][Next]_vars

----------------------------------------------------------------------------
(* SokobanController (sokoban.py) *)

Max(a, b) == IF a >= b THEN a ELSE b

\* faulty variant: the score of a level has no floor
level_score_no_floor(m) == 10000 - (m.move_count * 10)

\* the score a board is worth: max(10000 - move_count * 10, 100)
level_score_of(m) == Max(10000 - (m.move_count * 10), 100)

\* SokobanController.__init__ with level_number = 0 on a non-empty levels
\* directory; current_level is the 0-based index of the file that was opened
SokobanController(files) ==
    [current_level_number |-> 0,
     score |-> 0,
     model |-> SokobanModel_v1(files[1]),
     current_level |-> 0]

\* faulty variant: the score of the level is added only when a next level exists
load_next_level_score_late(c, files) ==
    LET level_score == level_score_of(c.model)
        n == c.current_level_number + 1
    IN  IF n < Len(files)
        THEN [ctl |-> [c EXCEPT !.score = @ + level_score,
                                !.current_level_number = n,
                                !.model = SokobanModel_v1(files[n + 1]),
                                !.current_level = n],
              ret |-> TRUE]
        ELSE [ctl |-> [c EXCEPT !.current_level_number = n], ret |-> FALSE]

\* faulty variant: the next level is entered without building its board
load_next_level_keeps_board(c, files) ==
    LET level_score == level_score_of(c.model)
        scored == [c EXCEPT !.score = @ + level_score,
                            !.current_level_number = @ + 1]
    IN  IF scored.current_level_number < Len(files)
        THEN [ctl |-> [scored EXCEPT !.current_level = scored.current_level_number],
              ret |-> TRUE]
        ELSE [ctl |-> scored, ret |-> FALSE]

\* faulty variant: the score of the level replaces the total
load_next_level_overwrites_score(c, files) ==
    LET level_score == level_score_of(c.model)
        scored == [c EXCEPT !.score = level_score,
                            !.current_level_number = @ + 1]
    IN  IF scored.current_level_number < Len(files)
        THEN [ctl |-> [scored EXCEPT
                          !.model = SokobanModel_v1(files[scored.current_level_number + 1]),
                          !.current_level = scored.current_level_number],
              ret |-> TRUE]
        ELSE [ctl |-> scored, ret |-> FALSE]

\* SokobanController.load_next_level: the controller afterwards and the
\* value returned
load_next_level(c, files) ==
    LET level_score == level_score_of(c.model)
        scored == [c EXCEPT !.score = @ + level_score,
                            !.current_level_number = @ + 1]
    IN  IF scored.current_level_number < Len(files)
        THEN [ctl |-> [scored EXCEPT
                          !.model = SokobanModel_v1(files[scored.current_level_number + 1]),
                          !.current_level = scored.current_level_number],
              ret |-> TRUE]
        ELSE [ctl |-> scored, ret |-> FALSE]

----------------------------------------------------------------------------
(* Session inputs *)

\* the events game_loop tells apart: window close, the four directions
\* (arrow keys or WASD), escape, r, and any other key
Events == {"QUIT", "K_UP", "K_LEFT", "K_DOWN", "K_RIGHT", "K_ESCAPE", "K_r", "K_OTHER"}

\* the delta game_loop passes to move for a direction key
KeyDelta(e) ==
    CASE e = "K_UP" -> <<0, -1>>
      [] e = "K_LEFT" -> <<-1, 0>>
      [] e = "K_DOWN" -> <<0, 1>>
      [] e = "K_RIGHT" -> <<1, 0>>

DirectionKeys == {"K_UP", "K_LEFT", "K_DOWN", "K_RIGHT"}

\* what one pygame.event.get() can return
Batches == UNION { [1..n -> Events] : n \in 1..MaxBatch }

\* a level file as list(f) gives it: the str rows of a framed one-corridor
\* level, each with its line end
Framed(row) ==
    LET wall == [i \in 1..Len(row) |-> WALL]
    IN  << StrRow(Append(wall, "\n")), StrRow(Append(row, "\n")),
           StrRow(Append(wall, "\n")) >>

\* one push completes it
FileOnePush == Framed(<<WALL, PLAYER, BOX, GOAL, WALL>>)
\* every goal is covered from the start; a step to the right keeps it so
FileSolved == Framed(<<WALL, PLAYER, FLOOR, BOX_ON_GOAL, WALL>>)
\* a stuck box on the left; two pushes to the right cover the goal
FileTwoBoxes == Framed(<<WALL, BOX, PLAYER, BOX, FLOOR, GOAL, WALL>>)

SessionFiles == {FileOnePush, FileSolved, FileTwoBoxes}

LevelDirectories == UNION { [1..n -> SessionFiles] : n \in 1..MaxLevels }

----------------------------------------------------------------------------
(* The session specification: SokobanController.game_loop *)

NoBoard ==
    /\ level_data = << >>
    /\ model = [move_count |-> 0]
    /\ model_v1 = [move_count |-> 0]
    /\ call = [result |-> "none"]

\* the phase of the session: the game is complete once game_loop has set
\* game_completed; a handler passed through LevelComplete when it found the
\* level complete (last.complete)
Phase == IF loop.game_completed THEN "GameComplete" ELSE "Playing"

\* what a handler that made no move leaves in last; board is the board it
\* leaves in place
Idle(e, board) ==
    [event |-> e, move_response |-> "none", phase_before |-> Phase,
     score_before |-> ctl.score, index_before |-> ctl.current_level_number,
     board_before |-> ctl.model, board |-> board, complete |-> FALSE,
     level_score |-> 0, has_next_level |-> FALSE]

InitSession ==
    /\ level_files \in LevelDirectories
    /\ ctl = SokobanController(level_files)
    /\ loop = [pc |-> "events", batch |-> << >>, running |-> TRUE,
               game_completed |-> FALSE]
    /\ last = [event |-> "none", move_response |-> "none", phase_before |-> "Playing",
               score_before |-> 0, index_before |-> 0,
               board_before |-> SokobanController(level_files).model,
               board |-> SokobanController(level_files).model,
               complete |-> FALSE, level_score |-> 0, has_next_level |-> FALSE]
    /\ history = << >>
    /\ NoBoard

\* for event in pygame.event.get(): a new batch, taken while running
GetEvents ==
    /\ loop.pc = "events" /\ loop.batch = << >> /\ loop.running
    /\ \E b \in Batches : loop' = [loop EXCEPT !.batch = b]
    /\ UNCHANGED <<level_data, model, model_v1, call, level_files, ctl, last, history>>

\* the body of the for loop on a QUIT event or the escape key
HandleQuit ==
    /\ loop.pc = "events" /\ loop.batch # << >>
    /\ Head(loop.batch) \in {"QUIT", "K_ESCAPE"}
    /\ loop' = [loop EXCEPT !.batch = Tail(@), !.running = FALSE]
    /\ last' = Idle(Head(loop.batch), ctl.model)
    /\ UNCHANGED <<level_data, model, model_v1, call, level_files, ctl, history>>

\* faulty variant: the r key resets the move counter of the board in place
HandleRestart_in_place ==
    /\ loop.pc = "events" /\ loop.batch # << >>
    /\ Head(loop.batch) = "K_r"
    /\ ctl' = [ctl EXCEPT !.model.move_count = 0]
    /\ loop' = [loop EXCEPT !.batch = Tail(@)]
    /\ last' = Idle("K_r", [ctl.model EXCEPT !.move_count = 0])
    /\ UNCHANGED <<level_data, model, model_v1, call, level_files, history>>

\* faulty variant: the r key goes back to the first level
HandleRestart_first_level ==
    /\ loop.pc = "events" /\ loop.batch # << >>
    /\ Head(loop.batch) = "K_r"
    /\ ctl' = [ctl EXCEPT !.model = SokobanModel_v1(level_files[1]),
                          !.current_level_number = 0,
                          !.current_level = 0]
    /\ loop' = [loop EXCEPT !.batch = Tail(@)]
    /\ last' = Idle("K_r", SokobanModel_v1(level_files[1]))
    /\ UNCHANGED <<level_data, model, model_v1, call, level_files, history>>

\* the body of the for loop on the r key: the current level is read again
HandleRestart ==
    /\ loop.pc = "events" /\ loop.batch # << >>
    /\ Head(loop.batch) = "K_r"
    /\ ctl' = [ctl EXCEPT !.model = SokobanModel_v1(level_files[ctl.current_level + 1])]
    /\ loop' = [loop EXCEPT !.batch = Tail(@)]
    /\ last' = Idle("K_r", SokobanModel_v1(level_files[ctl.current_level + 1]))
    /\ UNCHANGED <<level_data, model, model_v1, call, level_files, history>>

\* the body of the for loop on a key that is bound to nothing
HandleOtherKey ==
    /\ loop.pc = "events" /\ loop.batch # << >>
    /\ Head(loop.batch) = "K_OTHER"
    /\ loop' = [loop EXCEPT !.batch = Tail(@)]
    /\ last' = Idle("K_OTHER", ctl.model)
    /\ UNCHANGED <<level_data, model, model_v1, call, level_files, ctl, history>>

\* faulty variant: completion is checked after every move call, valid or not
HandleMove_checks_always ==
    /\ loop.pc = "events" /\ loop.batch # << >>
    /\ Head(loop.batch) \in DirectionKeys
    /\ ctl.model.move_count < MaxMoves
    /\ LET e == Head(loop.batch)
           d == KeyDelta(e)
           r == move_v1(ctl.model, d[1], d[2])
           moved == [ctl EXCEPT !.model = r.model]
           complete == is_level_complete_v1(r.model)
           nxt == load_next_level(moved, level_files)
       IN  /\ ctl' = IF complete THEN nxt.ctl ELSE moved
           /\ loop' = IF complete /\ ~nxt.ret
                      THEN [loop EXCEPT !.batch = Tail(@), !.running = FALSE,
                                        !.game_completed = TRUE]
                      ELSE [loop EXCEPT !.batch = Tail(@)]
           /\ last' = [event |-> e, move_response |-> r.result,
                       phase_before |-> Phase,
                       score_before |-> ctl.score,
                       index_before |-> ctl.current_level_number,
                       board_before |-> ctl.model,
                       board |-> r.model,
                       complete |-> complete,
                       level_score |-> IF complete THEN level_score_of(r.model) ELSE 0,
                       has_next_level |-> complete /\ nxt.ret]
           /\ history' = IF complete
                         THEN Append(history, [level |-> ctl.current_level_number,
                                               level_score |-> level_score_of(r.model)])
                         ELSE history
    /\ UNCHANGED <<level_data, model, model_v1, call, level_files>>

\* the body of the for loop on a direction key: the move, and after a valid
\* move the completion check, load_next_level and the end of the game
HandleMove ==
    /\ loop.pc = "events" /\ loop.batch # << >>
    /\ Head(loop.batch) \in DirectionKeys
    /\ ctl.model.move_count < MaxMoves
    /\ LET e == Head(loop.batch)
           d == KeyDelta(e)
           r == move_v1(ctl.model, d[1], d[2])
           moved == [ctl EXCEPT !.model = r.model]
           complete == r.result = VALID /\ is_level_complete_v1(r.model)
           nxt == load_next_level(moved, level_files)
       IN  /\ ctl' = IF complete THEN nxt.ctl ELSE moved
           /\ loop' = IF complete /\ ~nxt.ret
                      THEN [loop EXCEPT !.batch = Tail(@), !.running = FALSE,
                                        !.game_completed = TRUE]
                      ELSE [loop EXCEPT !.batch = Tail(@)]
           /\ last' = [event |-> e, move_response |-> r.result,
                       phase_before |-> Phase,
                       score_before |-> ctl.score,
                       index_before |-> ctl.current_level_number,
                       board_before |-> ctl.model,
                       board |-> r.model,
                       complete |-> complete,
                       level_score |-> IF complete THEN level_score_of(r.model) ELSE 0,
                       has_next_level |-> complete /\ nxt.ret]
           /\ history' = IF complete
                         THEN Append(history, [level |-> ctl.current_level_number,
                                               level_score |-> level_score_of(r.model)])
                         ELSE history
    /\ UNCHANGED <<level_data, model, model_v1, call, level_files>>

\* while running: ends once the batch is done and running is False
ExitLoop ==
    /\ loop.pc = "events" /\ loop.batch = << >> /\ ~loop.running
    /\ loop' = [loop EXCEPT !.pc = IF loop.game_completed THEN "waiting" ELSE "quit"]
    /\ UNCHANGED <<level_data, model, model_v1, call, level_files, ctl, last, history>>

\* the end screen: only a window close or the escape key is acted on
WaitQuit ==
    /\ loop.pc = "waiting"
    /\ \E e \in {"QUIT", "K_ESCAPE"} : last' = Idle(e, ctl.model)
    /\ loop' = [loop EXCEPT !.pc = "quit"]
    /\ UNCHANGED <<level_data, model, model_v1, call, level_files, ctl, history>>

NextSession ==
    \/ GetEvents
    \/ HandleQuit
    \/ HandleRestart
    \/ HandleOtherKey
    \/ HandleMove
    \/ ExitLoop
    \/ WaitQuit

SpecSession == InitSession /\ [][NextSession]_vars

----------------------------------------------------------------------------
(* Long levels: sessions of one level with room to walk, played key by    *)
(* key until the level is complete with up to MaxCount moves               *)

\* one push completes it, after an even number of steps to and fro
FileWalkOdd == Framed(<<WALL, FLOOR, PLAYER, BOX, GOAL, WALL>>)
\* one push completes it, after an odd number of steps
FileWalkEven == Framed(<<WALL, FLOOR, PLAYER, FLOOR, BOX, GOAL, WALL>>)

\* SokobanController.__init__ on a directory with one of the two files, and
\* the locals of game_loop
InitScore ==
    /\ level_files \in {<<FileWalkOdd>>, <<FileWalkEven>>}
    /\ ctl = SokobanController(level_files)
    /\ loop = [pc |-> "events", batch |-> << >>, running |-> TRUE,
               game_completed |-> FALSE]
    /\ last = [event |-> "none", move_response |-> "none", phase_before |-> "Playing",
               score_before |-> 0, index_before |-> 0,
               board_before |-> SokobanController(level_files).model,
               board |-> SokobanController(level_files).model,
               complete |-> FALSE, level_score |-> 0, has_next_level |-> FALSE]
    /\ history = << >>
    /\ NoBoard

\* one pass of the while loop whose batch is the single direction key e: the
\* move, and after a valid move the completion check, level_score,
\* load_next_level and the end of the game
PlayKey(e) ==
    /\ loop.pc = "events" /\ loop.batch = << >> /\ loop.running
    /\ ctl.model.move_count < MaxCount
    /\ LET d == KeyDelta(e)
           r == move_v1(ctl.model, d[1], d[2])
           moved == [ctl EXCEPT !.model = r.model]
           complete == r.result = VALID /\ is_level_complete_v1(r.model)
           nxt == load_next_level(moved, level_files)
       IN  /\ ctl' = IF complete THEN nxt.ctl ELSE moved
           /\ loop' = IF complete /\ ~nxt.ret
                      THEN [loop EXCEPT !.running = FALSE, !.game_completed = TRUE]
                      ELSE loop
           /\ last' = [event |-> e, move_response |-> r.result,
                       phase_before |-> Phase,
                       score_before |-> ctl.score,
                       index_before |-> ctl.current_level_number,
                       board_before |-> ctl.model,
                       board |-> r.model,
                       complete |-> complete,
                       level_score |-> IF complete THEN level_score_of(r.model) ELSE 0,
                       has_next_level |-> complete /\ nxt.ret]
           /\ history' = IF complete
                         THEN Append(history, [level |-> ctl.current_level_number,
                                               level_score |-> level_score_of(r.model)])
                         ELSE history
    /\ UNCHANGED <<level_data, model, model_v1, call, level_files>>

NextScore == \E e \in DirectionKeys : PlayKey(e)

SpecScore == InitScore /\ [][NextScore]_vars

----------------------------------------------------------------------------
(* The last move call, as the claims read it *)

\* a move call has been made and the board it was made on has a player
Called == call.result # "none" /\ call.before.player # NoPlayer

\* target = agent + delta and beyond = target + delta of the last call
Target == <<call.before.player[1] + call.dx, call.before.player[2] + call.dy>>
Beyond == <<Target[1] + call.dx, Target[2] + call.dy>>
Occupied == call.before.walls \cup call.before.boxes

\* the number of agent glyphs of a level text
AgentCount(rows) ==
    Cardinality({p \in UNION {{<<x, y>> : x \in 1..Len(rows[y].items)} : y \in 1..Len(rows)} :
                    rows[p[2]].items[p[1]] \in {PLAYER, PLAYER_ON_GOAL}})

\* the cells of a level text, as (column, row) counted from 1
TextCells(rows) ==
    UNION {{<<x, y>> : x \in 1..Len(rows[y].items)} : y \in 1..Len(rows)}

----------------------------------------------------------------------------
(* Claims on the board *)

\* C1: in every state reached from a parsed board by move calls, walls and
\* boxes are disjoint and the agent position is neither a wall nor a box
\* (on both engines).
C1_NoOverlap ==
    /\ model.walls \cap model.boxes = {}
    /\ model.player \notin model.walls \cup model.boxes
    /\ model_v1.walls \cap model_v1.boxes = {}
    /\ model_v1.player \notin model_v1.walls \cup model_v1.boxes

\* C1 witness: a box has been pushed against a wall and a further push was refused
C1_Witness ==
    /\ Called
    /\ call.result = INVALID_BOX
    /\ model.push_count > 0
    /\ Beyond \in model.walls

\* C2: a move call that returns InvalidWall or InvalidBox leaves the agent,
\* the boxes, move_count and push_count as they were before the call.
C2_InvalidChangesNothing ==
    call.result \in {INVALID_WALL, INVALID_BOX} =>
        /\ model.player = call.before.player
        /\ model.boxes = call.before.boxes
        /\ model.move_count = call.before.move_count
        /\ model.push_count = call.before.push_count

\* C2 witness: an invalid call on a board that has already moved and pushed
C2_Witness ==
    /\ call.result \in {INVALID_WALL, INVALID_BOX}
    /\ call.before.move_count > 1
    /\ call.before.push_count > 0

\* C3: when target is neither a wall nor a box, move returns Valid, the agent
\* is at target, move_count grew by exactly 1, boxes and push_count are unchanged.
C3_StepToEmpty ==
    (Called /\ Target \notin Occupied) =>
        /\ call.result = VALID
        /\ model.player = Target
        /\ model.move_count = call.before.move_count + 1
        /\ model.boxes = call.before.boxes
        /\ model.push_count = call.before.push_count

\* C3 witness: a plain step on a board that has boxes and an earlier push
C3_Witness ==
    /\ Called
    /\ Target \notin Occupied
    /\ call.before.boxes # {}
    /\ call.before.push_count > 0

\* C4: when target holds a box and beyond is neither a wall nor a box, move
\* returns Valid, the box leaves target and arrives at beyond, no other box
\* changes, the agent is at target, move_count and push_count grew by exactly 1.
C4_Push ==
    (Called /\ Target \in call.before.boxes /\ Beyond \notin Occupied) =>
        /\ call.result = VALID
        /\ Target \notin model.boxes
        /\ Beyond \in model.boxes
        /\ model.boxes \ {Beyond} = call.before.boxes \ {Target}
        /\ model.player = Target
        /\ model.move_count = call.before.move_count + 1
        /\ model.push_count = call.before.push_count + 1

\* C4 witness: a push on a board with a second box, which stays where it was
C4_Witness ==
    /\ Called
    /\ Target \in call.before.boxes
    /\ Beyond \notin Occupied
    /\ Cardinality(call.before.boxes) > 1

\* C5: when target holds a box and beyond is a wall or another box, move
\* returns InvalidBox and no box moves, also when the cell behind the second
\* box is free (no chain push).
C5_BlockedPush ==
    (Called /\ Target \in call.before.boxes /\ Beyond \in Occupied) =>
        /\ call.result = INVALID_BOX
        /\ model.boxes = call.before.boxes
        /\ model.player = call.before.player

\* C5 witness: the box is blocked by a second box with a free cell behind it
C5_Witness ==
    /\ Called
    /\ Target \in call.before.boxes
    /\ Beyond \in call.before.boxes
    /\ <<Beyond[1] + call.dx, Beyond[2] + call.dy>> \notin Occupied
    /\ call.result = INVALID_BOX

\* C6: move returns InvalidWall exactly when target is a wall cell, and then
\* no counter changes.
C6_WallExactly ==
    Called =>
        /\ (call.result = INVALID_WALL) = (Target \in call.before.walls)
        /\ call.result = INVALID_WALL =>
               /\ model.move_count = call.before.move_count
               /\ model.push_count = call.before.push_count

\* C6 witness: the agent walked into a wall after earlier moves
C6_Witness ==
    /\ Called
    /\ Target \in call.before.walls
    /\ call.result = INVALID_WALL
    /\ call.before.move_count > 0

\* C7: move never raises: on every constructed board every call returns one
\* of Valid, InvalidWall, InvalidBox.
C7_NeverRaises ==
    call.result \in {"none", VALID, INVALID_WALL, INVALID_BOX}

\* C8: a level text with zero or several agent glyphs, or with zero rows, is
\* rejected at construction with a malformed-level error.
C8_MalformedRejected ==
    (AgentCount(level_data) # 1 \/ Len(level_data) = 0) => init_raises(level_data)

\* C9: isLevelComplete is true exactly when the goal set is non-empty and
\* every goal holds a box; with no goal it is false whatever the boxes
\* (on both engines).
C9_CompleteIff ==
    /\ is_level_complete(model) = (model.goals # {} /\ model.goals \subseteq model.boxes)
    /\ model.goals = {} => ~is_level_complete(model)
    /\ is_level_complete_v1(model_v1) =
           (model_v1.goals # {} /\ model_v1.goals \subseteq model_v1.boxes)

\* C9 witness: the last push covered the last open goal
C9_Witness ==
    /\ call.result = VALID
    /\ ~is_level_complete(call.before)
    /\ is_level_complete(model)
    /\ model.push_count > 0

----------------------------------------------------------------------------
(* Claims on the session *)

\* C10: when a move returns Valid and the board then reports the level
\* complete, max(10000 - 10 * move_count, 100) of that board is added to
\* total_score exactly once and the session goes through LevelComplete.
C10_ScoreOnCompletion ==
    (last.move_response = VALID /\ is_level_complete_v1(last.board)) =>
        /\ ctl.score = last.score_before + Max(10000 - 10 * last.board.move_count, 100)
        /\ last.level_score = Max(10000 - 10 * last.board.move_count, 100)
        /\ last.complete

\* C10 witness: while Playing, a level was completed in more than one move,
\* after an earlier level had been scored
C10_Witness ==
    /\ last.move_response = VALID
    /\ is_level_complete_v1(last.board)
    /\ last.phase_before = "Playing"
    /\ last.board.move_count > 1
    /\ last.score_before > 0

\* C11: after a completed level, when current_index + 1 < len(level_sequence)
\* the index grows by one, the board is a fresh parse of the next level
\* (counters 0, nothing of the old board), load_next_level returned true and
\* the session is Playing; otherwise it returned false and the session is in
\* GameComplete.
C11_Advance ==
    last.complete =>
        IF last.index_before + 1 < Len(level_files)
        THEN /\ ctl.current_level_number = last.index_before + 1
             /\ ctl.model = SokobanModel_v1(level_files[last.index_before + 2])
             /\ ctl.model.move_count = 0
             /\ SokobanModel(level_files[last.index_before + 2]).push_count = 0
             /\ last.has_next_level
             /\ Phase = "Playing"
        ELSE /\ ~last.has_next_level
             /\ Phase = "GameComplete"

\* C11 witness: a level completed in several moves was followed by a
\* different level
C11_Witness ==
    /\ last.complete
    /\ last.has_next_level
    /\ last.board.move_count > 1
    /\ level_files[last.index_before + 1] # level_files[last.index_before + 2]

\* C12: GameComplete is terminal: once the session is in GameComplete, no
\* later event, queued ones included, changes total_score or current_index
\* or makes another level transition.
C12_GameCompleteTerminal ==
    [][Phase = "GameComplete" =>
          /\ ctl'.score = ctl.score
          /\ ctl'.current_level_number = ctl.current_level_number
          /\ (last' # last => ~last'.complete)]_vars

\* C13: a restart while Playing replaces the board by a fresh parse of the
\* current level: agent and boxes at their initial positions, counters 0;
\* total_score, current_index and the phase (Playing) are unchanged.
C13_Restart ==
    (last.event = "K_r" /\ last.phase_before = "Playing") =>
        /\ ctl.model = SokobanModel_v1(level_files[ctl.current_level_number + 1])
        /\ ctl.model.move_count = 0
        /\ SokobanModel(level_files[ctl.current_level_number + 1]).push_count = 0
        /\ ctl.score = last.score_before
        /\ ctl.current_level_number = last.index_before
        /\ Phase = "Playing"

\* C13 witness: the restart came on a later level, after a box of it had
\* been pushed
C13_Witness ==
    /\ last.event = "K_r"
    /\ last.phase_before = "Playing"
    /\ last.index_before > 0
    /\ last.score_before > 0
    /\ last.board_before.boxes # ctl.model.boxes
    /\ last.board_before.move_count > 0

\* C14: a restart received when the session is in LevelComplete or
\* GameComplete does not replace the board and changes no session state.
C14_RestartOnlyWhilePlaying ==
    (last.event = "K_r" /\ last.phase_before # "Playing") =>
        /\ ctl.model = last.board_before
        /\ ctl.score = last.score_before
        /\ ctl.current_level_number = last.index_before

\* the sum of the level scores of a history
RECURSIVE SumScores(_)
SumScores(h) == IF h = << >> THEN 0 ELSE Head(h).level_score + SumScores(Tail(h))

\* C15: the phase only follows Playing -> LevelComplete -> (Playing |
\* GameComplete); in GameComplete each of the N levels has been completed
\* once, in sequence order, and total_score is the sum of the N level scores.
C15_PhaseOrderAndTotal ==
    /\ last.complete => last.phase_before = "Playing"
    /\ Phase = "GameComplete" =>
          /\ Len(history) = Len(level_files)
          /\ \A i \in 1..Len(history) : history[i].level = i - 1
          /\ ctl.score = SumScores(history)

----------------------------------------------------------------------------
(* More claims on the board *)

\* C16: push_count <= move_count in every reachable board state.
C16_PushesAreMoves == model.push_count <= model.move_count

\* C16 witness: the board has counted a push and, after it, a plain step
C16_Witness ==
    /\ model.push_count > 0
    /\ model.push_count < model.move_count
    /\ call.result = VALID
    /\ call.before.push_count = model.push_count

\* the cells a board mentions, and the cells around the agent
CellsOf(m) ==
    m.walls \cup m.boxes \cup m.goals \cup
    {<<m.player[1] + d[1], m.player[2] + d[2]>> :
        d \in Directions \cup {<<0, 0>>}}

\* the display class the priority order of the claim gives a cell
Priority(m, pos) ==
    CASE pos \in m.goals /\ pos \in m.boxes -> BOX_ON_GOAL
      [] pos \in m.goals /\ pos \notin m.boxes /\ pos = m.player -> PLAYER_ON_GOAL
      [] pos \in m.goals /\ pos \notin m.boxes /\ pos # m.player -> GOAL
      [] pos \notin m.goals /\ pos \in m.boxes -> BOX
      [] pos \notin m.goals /\ pos \notin m.boxes /\ pos = m.player -> PLAYER
      [] pos \notin m.goals /\ pos \notin m.boxes /\ pos # m.player
            /\ pos \in m.walls -> WALL
      [] OTHER -> FLOOR

\* C17: on a board with an agent, symbolAt follows the priority order goal
\* and box, goal and agent, goal, box, agent, wall, floor: a goal cell with a
\* box or the agent on it is never shown as a plain box, agent or goal
\* (on both engines).
C17_SymbolPriority ==
    model.player # NoPlayer =>
        \A pos \in CellsOf(model) :
            /\ symbol(model, pos[1], pos[2]) = Priority(model, pos)
            /\ symbol_v1(model_v1, pos[1], pos[2]) = Priority(model_v1, pos)
            /\ (pos \in model.goals /\ (pos \in model.boxes \/ pos = model.player)) =>
                   symbol(model, pos[1], pos[2]) \in {BOX_ON_GOAL, PLAYER_ON_GOAL}

\* C17 witness: after a push a box stands on a goal while the agent stands
\* on another goal
C17_Witness ==
    /\ call.result = VALID
    /\ model.push_count > 0
    /\ model.player \in model.goals
    /\ model.boxes \cap model.goals # {}
    /\ model.boxes \ model.goals # {}

\* whether a cell lies in the parsed rectangle of a board
InRectangle(m, pos) ==
    /\ 0 <= pos[1] /\ pos[1] < m.size[1]
    /\ 0 <= pos[2] /\ pos[2] < m.size[2]

\* C20: legality is set membership only: a step to a target outside the
\* parsed rectangle, and a push whose beyond cell is outside it, negative
\* coordinates included, is Valid whenever that cell is neither wall nor box.
C20_NoBounds ==
    /\ (Called /\ ~InRectangle(call.before, Target) /\ Target \notin Occupied) =>
           /\ call.result = VALID
           /\ model.player = Target
    /\ (Called /\ Target \in call.before.boxes /\ ~InRectangle(call.before, Beyond)
           /\ Beyond \notin Occupied) =>
           /\ call.result = VALID
           /\ Beyond \in model.boxes
           /\ model.player = Target

\* C20 witness: the agent has followed a box out of the rectangle to
\* negative coordinates
C20_Witness ==
    /\ Called
    /\ call.result = VALID
    /\ Beyond \in model.boxes
    /\ ~InRectangle(model, Beyond)
    /\ ~InRectangle(model, model.player)
    /\ (model.player[1] < 0 \/ model.player[2] < 0)

----------------------------------------------------------------------------
(* Claims on the score *)

\* C18: total_score is never negative and never decreases, whatever the
\* events of the session.
C18_ScoreMonotone ==
    /\ [](ctl.score >= 0)
    /\ [][ctl'.score >= ctl.score]_vars

\* C18 witness: a second level score has been added to a positive total
C18_Witness ==
    /\ last.complete
    /\ last.score_before > 0
    /\ ctl.score > last.score_before
    /\ last.level_score < last.score_before

\* C19: for every move_count >= 0 the level score max(10000 - 10 *
\* move_count, 100) is at least 100, is 10 less for each further move while
\* move_count < 990, and is 100 from 990 on (9500 at 50, 100 at 1000); it
\* is what a completed level adds to the score.
C19_LevelScore ==
    LET n == ctl.model.move_count
        s == level_score_of(ctl.model)
    IN  /\ n >= 0
        /\ s >= 100
        /\ n < 990 => s = 10000 - (10 * n)
        /\ n >= 990 => s = 100
        /\ n = 50 => s = 9500
        /\ n = 1000 => s = 100
        /\ (last.move_response = VALID /\ last.board_before.move_count < 990) =>
              /\ last.board.move_count = last.board_before.move_count + 1
              /\ level_score_of(last.board) = level_score_of(last.board_before) - 10
        /\ (last.move_response = VALID /\ last.board_before.move_count >= 990) =>
              level_score_of(last.board) = level_score_of(last.board_before)
        /\ last.complete =>
              /\ last.level_score = level_score_of(last.board)
              /\ ctl.score = last.score_before + last.level_score

\* C19 witness: a level completed by its 1000th move has been scored at the
\* floor
C19_Witness ==
    /\ last.complete
    /\ last.board.move_count = 1000
    /\ last.level_score = 100
    /\ ctl.score = 100

\* a level completed by its 50th move has been scored 9500
ScoredAtFifty == last.complete /\ last.board.move_count = 50 /\ ctl.score = 9500

\* a level completed by its 989th move has been scored 110
ScoredAtOdd == last.complete /\ last.board.move_count = 989 /\ ctl.score = 110

----------------------------------------------------------------------------
(* Claims on what move leaves alone *)

\* C21: whatever the outcome of a move call, the walls, the goals and the
\* size of the board are those the constructor built (on both engines).
C21_WallsGoalsSizeKept ==
    /\ model.walls = SokobanModel(level_data).walls
    /\ model.goals = SokobanModel(level_data).goals
    /\ model.size = SokobanModel(level_data).size
    /\ model_v1.walls = SokobanModel_v1(level_data).walls
    /\ model_v1.goals = SokobanModel_v1(level_data).goals
    /\ model_v1.size = SokobanModel_v1(level_data).size
    /\ call.result # "none" =>
          /\ model.walls = call.before.walls
          /\ model.goals = call.before.goals
          /\ model.size = call.before.size

\* C21 witness: a box has been pushed onto a goal of a board that has walls
C21_Witness ==
    /\ Called
    /\ call.result = VALID
    /\ model.push_count = call.before.push_count + 1
    /\ Beyond \in model.goals
    /\ model.walls # {}

----------------------------------------------------------------------------
(* More claims on the session *)

\* C22: current_level_number goes up by exactly one in a handler that found
\* the level complete and is changed by nothing else: not by a move that
\* leaves the level incomplete, an invalid move, a restart or any other
\* event; it counts the completions so far.
C22_IndexAdvance ==
    /\ ctl.current_level_number = last.index_before + (IF last.complete THEN 1 ELSE 0)
    /\ ctl.current_level_number = Len(history)

\* C22 witness: on the second level, after a valid move that did not
\* complete it, the index is still 1
C22_Witness ==
    /\ last.move_response = VALID
    /\ ~last.complete
    /\ last.index_before = 1
    /\ ctl.current_level_number = 1
    /\ Len(history) = 1

\* C27: completion is checked only after a move that returned Valid: an
\* invalid move, a restart, any other event and the loading of a level
\* (the first one included) add no score and change no level, even on a
\* board whose goals are all covered; a handled completion adds the score
\* of one level only, whatever the board it loads.
C27_CompletionAfterValidOnly ==
    /\ last.event = "none" => ctl.score = 0 /\ ctl.current_level_number = 0
    /\ (last.event # "none" /\ last.move_response # VALID) =>
          /\ ~last.complete
          /\ ctl.score = last.score_before
          /\ ctl.current_level_number = last.index_before
    /\ last.complete =>
          /\ last.move_response = VALID
          /\ ctl.score = last.score_before + last.level_score
          /\ ctl.current_level_number = last.index_before + 1

\* C27 witness: the second level was loaded with every goal covered, and a
\* move into the wall was refused on it without score or level change
C27_Witness ==
    /\ last.move_response = INVALID_WALL
    /\ last.index_before = 1
    /\ is_level_complete_v1(ctl.model)
    /\ ctl.model.move_count = 0
    /\ ctl.score = last.score_before
    /\ Phase = "Playing"

----------------------------------------------------------------------------
(* Claims on the constructor *)

\* what the claim says a glyph g puts at pos in a board m built from rows
Placed(m, rows, g, pos) ==
    CASE g = BOX -> pos \in m.boxes /\ pos \notin m.goals \cup m.walls
      [] g = BOX_ON_GOAL -> pos \in m.boxes /\ pos \in m.goals /\ pos \notin m.walls
      [] g = PLAYER ->
            /\ AgentCount(rows) = 1 => m.player = pos
            /\ pos \notin m.boxes \cup m.goals \cup m.walls
      [] g = PLAYER_ON_GOAL ->
            /\ AgentCount(rows) = 1 => m.player = pos
            /\ pos \in m.goals /\ pos \notin m.boxes \cup m.walls
      [] g = GOAL -> pos \in m.goals /\ pos \notin m.boxes \cup m.walls
      [] g = WALL -> pos \in m.walls /\ pos \notin m.boxes \cup m.goals
      [] OTHER -> pos \notin m.boxes \cup m.goals \cup m.walls

\* C23: on a freshly built board every glyph of the level text is found at
\* (its column, its row): '$' in boxes, '*' in boxes and goals, '@' as the
\* agent, '+' as the agent and in goals, '.' in goals, '#' in walls; floor
\* and any other glyph are in no set (on both engines).
C23_GlyphPlacement ==
    call.result = "none" =>
        \A p \in TextCells(level_data) :
            /\ Placed(model, level_data, level_data[p[2]].items[p[1]], <<p[1] - 1, p[2] - 1>>)
            /\ Placed(model_v1, level_data, level_data[p[2]].items[p[1]], <<p[1] - 1, p[2] - 1>>)

\* the glyphs that stand for an entity of the board
EntityGlyphs == {BOX, BOX_ON_GOAL, PLAYER, PLAYER_ON_GOAL, GOAL, WALL}

\* C24: the width of a board is the length of the first row without its
\* trailing whitespace and line end, the height is the number of rows, and
\* the leading characters of a row are kept: the row the constructor scans
\* is the row without its trailing whitespace, so every entity has its text
\* column as x.
C24_WidthAndColumns ==
    call.result = "none" =>
        /\ model.size = IF Len(level_data) > 0
                        THEN <<Len(rstrip(level_data[1].items)), Len(level_data)>>
                        ELSE <<0, 0>>
        /\ model_v1.size = model.size
        /\ \A y \in 1..Len(level_data) : row_str(level_data[y]) = rstrip(level_data[y].items)
        /\ \A p \in TextCells(level_data) :
              level_data[p[2]].items[p[1]] \in EntityGlyphs \ {PLAYER, PLAYER_ON_GOAL} =>
                  <<p[1] - 1, p[2] - 1>> \in model.boxes \cup model.goals \cup model.walls

\* the rows of a level text have no leading whitespace
NoLeadingSpace(rows) == \A y \in 1..Len(rows) : lstrip(rows[y].items) = rows[y].items

\* on texts whose rows have no leading whitespace the glyph placement and
\* the width are as stated
FlushRowsParseInPlace ==
    NoLeadingSpace(level_data) => C23_GlyphPlacement /\ C24_WidthAndColumns

----------------------------------------------------------------------------
(* Claims on sequences of move calls *)

\* C25: move_count and push_count are never negative, and a move call
\* leaves each of them unchanged or raises it by exactly 1.
C25_CountersStep ==
    /\ model.move_count >= 0
    /\ model.push_count >= 0
    /\ model_v1.move_count >= 0
    /\ call.result # "none" =>
          /\ model.move_count - call.before.move_count \in {0, 1}
          /\ model.push_count - call.before.push_count \in {0, 1}

\* C25 witness: a second push has raised both counters by 1
C25_Witness ==
    /\ Called
    /\ call.before.push_count = 1
    /\ model.push_count = 2
    /\ model.move_count = call.before.move_count + 1

\* C26: from the same level text and the same directions the engines of
\* sokoban.py and sokoban2.py return the same outcome on every call and
\* agree on player, boxes, walls, goals and move_count after every call.
C26_SameEngine ==
    /\ call.result = call.result_v1
    /\ model_v1.player = model.player
    /\ model_v1.boxes = model.boxes
    /\ model_v1.walls = model.walls
    /\ model_v1.goals = model.goals
    /\ model_v1.move_count = model.move_count
    /\ model_v1.size = model.size

\* C26 witness: both engines have made a push and then refused one
C26_Witness ==
    /\ Called
    /\ call.result_v1 = INVALID_BOX
    /\ call.result = INVALID_BOX
    /\ model.push_count > 0
    /\ model_v1.boxes # SokobanModel_v1(level_data).boxes

\* C28: after any sequence of move calls a board has as many boxes as the
\* constructor gave it (on both engines).
C28_BoxCount ==
    /\ Cardinality(model.boxes) = Cardinality(SokobanModel(level_data).boxes)
    /\ Cardinality(model_v1.boxes) = Cardinality(SokobanModel_v1(level_data).boxes)

\* C28 witness: on a board with two boxes one of them has been pushed
C28_Witness ==
    /\ Called
    /\ call.result = VALID
    /\ model.push_count = call.before.push_count + 1
    /\ Beyond \in model.boxes
    /\ Cardinality(model.boxes) = 2

\* the move call with the opposite delta, on the board as it is
Opposite == move(model, 0 - call.dx, 0 - call.dy)

\* C29: after a Valid move with delta d the move with delta -d is Valid and
\* pushes nothing; if the first move was no push, the two together put the
\* player back, leave the boxes as they were and add 2 to move_count.
C29_StepBack ==
    (Called /\ call.result = VALID) =>
        /\ Opposite.result = VALID
        /\ Opposite.model.push_count = model.push_count
        /\ Opposite.model.boxes = model.boxes
        /\ Opposite.model.player = call.before.player
        /\ model.push_count = call.before.push_count =>
              /\ Opposite.model.boxes = call.before.boxes
              /\ Opposite.model.move_count = call.before.move_count + 2

\* C29 witness: a step and the step back have been made next to a box: the
\* board is the constructor's again but for move_count 2
C29_Witness ==
    /\ Called
    /\ call.result = VALID
    /\ model.move_count = 2
    /\ model.push_count = 0
    /\ model.player = SokobanModel(level_data).player
    /\ model.boxes # {}
    /\ <<model.player[1] + call.dx, model.player[2] + call.dy>> \in model.boxes

\* C30: is_level_complete changes only across a move call that pushed a box:
\* a Valid move without a push and an invalid move leave it as it was.
C30_CompleteOnlyByPush ==
    call.result # "none" =>
        (is_level_complete(model) # is_level_complete(call.before) =>
            /\ call.result = VALID
            /\ model.push_count = call.before.push_count + 1)

\* C30 witness: a push took a box off a goal of a complete board
C30_Witness ==
    /\ Called
    /\ is_level_complete(call.before)
    /\ ~is_level_complete(model)
    /\ model.push_count > 0

----------------------------------------------------------------------------
(* Claims on the level index and on the display of a fresh board *)

\* C31: in every session state current_level_number is an index of the
\* level files, 0 <= current_level_number < len(level_files), also once the
\* last level is complete and the game is over.
C31_IndexInRange ==
    /\ 0 <= ctl.current_level_number
    /\ ctl.current_level_number < Len(level_files)

\* while the session is Playing the index is in range, and the first time
\* the game is over it is len(level_files)
IndexInRangeWhilePlaying ==
    /\ Phase = "Playing" => C31_IndexInRange
    /\ (Phase = "GameComplete" /\ last.phase_before = "Playing") =>
          ctl.current_level_number = Len(level_files)

\* the seven glyphs of class Symbol
SevenGlyphs == {BOX, BOX_ON_GOAL, PLAYER, PLAYER_ON_GOAL, GOAL, WALL, FLOOR}

\* a row of a level file without its line end
Chomp(row) ==
    IF row.items # << >> /\ row.items[Len(row.items)] = "\n"
    THEN SubSeq(row.items, 1, Len(row.items) - 1)
    ELSE row.items

\* a rectangular level text of the seven glyphs with exactly one agent glyph
RoundTripText(rows) ==
    /\ Len(rows) > 0
    /\ \A y \in 1..Len(rows) : hasattr_strip(rows[y])
    /\ Len(Chomp(rows[1])) > 0
    /\ \A y \in 1..Len(rows) :
          /\ Len(Chomp(rows[y])) = Len(Chomp(rows[1]))
          /\ \A x \in 1..Len(Chomp(rows[y])) : Chomp(rows[y])[x] \in SevenGlyphs
    /\ AgentCount(rows) = 1

\* C32: on the board freshly built from a rectangular text of the seven
\* glyphs with exactly one agent glyph, symbol(x, y) is, for every cell of
\* the rectangle, the glyph the text has at column x of row y (on both
\* engines).
C32_RoundTrip ==
    (call.result = "none" /\ RoundTripText(level_data)) =>
        /\ model.size = <<Len(Chomp(level_data[1])), Len(level_data)>>
        /\ \A y \in 0..(Len(level_data) - 1) :
              \A x \in 0..(Len(Chomp(level_data[1])) - 1) :
                 /\ symbol(model, x, y) = Chomp(level_data[y + 1])[x + 1]
                 /\ symbol_v1(model_v1, x, y) = Chomp(level_data[y + 1])[x + 1]

\* C32 witness: a fresh board of several rows and columns whose text has a
\* wall, the player, a box and a goal
C32_Witness ==
    /\ call.result = "none"
    /\ RoundTripText(level_data)
    /\ Len(level_data) > 1
    /\ model.size[1] > 1
    /\ {symbol(model, x, 1) : x \in 0..(model.size[1] - 1)} = {WALL, PLAYER, BOX, GOAL}

\* a fresh one-row board where the player on a goal, a box on a goal and
\* floor read back as written
RoundTripOnGoals ==
    /\ call.result = "none"
    /\ RoundTripText(level_data)
    /\ symbol(model, 0, 0) = PLAYER_ON_GOAL
    /\ symbol(model, 1, 0) = BOX_ON_GOAL
    /\ symbol(model, 2, 0) = FLOOR

====
